---- MODULE Spec2Model ----
(***************************************************************************)
(* A model of slabby's Slab<T, K>: a boxed slice of untagged slots, a      *)
(* free-list head `next` and an element count `len` (src/src/slab.rs).     *)
(* The unsafe API is driven by a caller that keeps the documented safety   *)
(* contracts: remove/get/get_mut are only given keys that an earlier       *)
(* insert returned and that were not removed since.                        *)
(***************************************************************************)
EXTENDS Integers, FiniteSets

\* ------------------------------------------------------------------ bounds
\* Number of insert calls explored.
MaxInserts == 6
\* Number of remove calls explored.
MaxRemoves == 3
\* Width in bits of the key type of the narrow-key specification, in which
\* the explored calls reach the key type's maximum value.
NarrowBits == 2

\* --------------------------------------------------------- program constants
\* Width of the narrowest key type (impl_key!(u8)).
KeyBits == 8
\* const INITIAL_SIZE: usize = 4
INITIAL_SIZE == 4

\* The element type T, cut down to two distinguishable values.
Values == {1, 2}

VARIABLES
    slots,      \* self.slots: function 0..capacity-1 -> Slot
    next,       \* self.next
    len,        \* self.len
    ret,        \* the last call and what it returned
    live,       \* keys returned by insert and not removed since
    written,    \* live key -> value last written under it (insert, get_mut)
    issued,     \* every key insert has returned so far
    nins,       \* number of insert calls performed
    nrem,       \* number of remove calls performed
    width,      \* the width in bits of the key type K the slab is built with
    dropped,    \* the element values the slab has run cleanup (Drop) on
    drain       \* the keys removed in a row from a slab without free slots
                \* and not reissued since, last removed first, and how far
                \* the caller is in removing them and inserting again

vars == <<slots, next, len, ret, live, written, issued, nins, nrem, width,
          dropped, drain>>

\* The number of values of K, and its maximum value.
KeyMod == 2 ^ width
KeyMax == KeyMod - 1

\* ------------------------------------------------------------------- keys
\* const ZERO: Self = 0
ZERO == 0

\* fn as_usize(self) -> usize { self as usize }
as_usize(k) == k

\* Faulty variant of inc: steps by two.
incSkip(k) == (k + 2) % KeyMod
\* fn inc(self) -> Self { self + 1 }, at the key type's width
inc(k) == (k + 1) % KeyMod

\* Faulty variant of dec: leaves the key as it is.
decStuck(k) == k
\* fn dec(self) -> Self { self - 1 }, at the key type's width
dec(k) == (k - 1) % KeyMod

\* ------------------------------------------------------------------ slots
\* union Slot<T, K> { val: ManuallyDrop<T>, next: K, _uninit: () }
\* The union carries no discriminant; the tag records which field was
\* written last, so that a read of another field is seen as such.
SlotVal(v) == [tag |-> "val", val |-> v, next |-> 0]
SlotNext(k) == [tag |-> "next", val |-> 0, next |-> k]
SlotUninit == [tag |-> "uninit", val |-> 0, next |-> 0]

\* self.slots.len()
Capacity(s) == Cardinality(DOMAIN s)

\* slots.get_unchecked(i): no bounds check; past the end it is arbitrary memory
At(s, i) == IF i \in DOMAIN s THEN s[i] ELSE SlotUninit

\* a write through get_unchecked_mut(i)
Put(s, i, x) == IF i \in DOMAIN s THEN [s EXCEPT ![i] = x] ELSE s

\* unsafe { slot.val }: the value when the slot holds one, otherwise the
\* bytes of a link or of unwritten memory read as a T
ReadVal(slot) == IF slot.tag = "val" THEN {slot.val} ELSE Values

\* unsafe { slot.next }: the link when the slot holds one, otherwise the
\* bytes of a value or of unwritten memory read as a K
ReadNext(slot, cap) == IF slot.tag = "next" THEN {slot.next} ELSE 0 .. cap

\* Slab::new
new == [slots |-> [i \in {} |-> SlotUninit], next |-> ZERO, len |-> ZERO]

\* Faulty variant of extend: allocates the larger store without moving the
\* old slots into it.
extendFresh(s) ==
    LET n == Capacity(s)
        extend_by == IF n = 0 THEN INITIAL_SIZE ELSE n
    IN  [i \in 0 .. (n + extend_by - 1) |-> SlotUninit]
\* Faulty variant of extend: doubles without the INITIAL_SIZE floor, so an
\* empty store stays empty.
extendNoFloor(s) ==
    LET n == Capacity(s)
    IN  [i \in 0 .. (n + n - 1) |-> IF i < n THEN s[i] ELSE SlotUninit]
\* Faulty variant of extend: grows by a single slot.
extendByOne(s) ==
    LET n == Capacity(s)
    IN  [i \in 0 .. n |-> IF i < n THEN s[i] ELSE SlotUninit]
\* Slab::extend: the old slots keep their indices; extend_by unwritten
\* slots are appended.
extend(s) ==
    LET n == Capacity(s)
        extend_by == IF n = 0 THEN INITIAL_SIZE ELSE n
    IN  [i \in 0 .. (n + extend_by - 1) |-> IF i < n THEN s[i] ELSE SlotUninit]

\* What dropping or overwriting a slot runs cleanup on: Slot is a union
\* whose only non-Copy field is a ManuallyDrop<T>, so it has no drop glue.
DropGlue(slot) == {}

\* A stack of keys as a function on 1..n, the top at 1.
StackSize(st) == Cardinality(DOMAIN st)
StackTop(st) == st[1]
StackPush(st, k) ==
    [i \in 1 .. (StackSize(st) + 1) |-> IF i = 1 THEN k ELSE st[i - 1]]
StackPop(st) == [i \in 1 .. (StackSize(st) - 1) |-> st[i + 1]]

\* The caller's run of removes followed by inserts, as in the test
\* does_not_forget_list. mode "push": only removes since the slab last had
\* no free slot; "pop": inserts are taking the removed keys back; "off":
\* the calls did not follow that pattern and the slab has free slots.
DrainOnRemove(key) ==
    IF drain.mode = "push"
    THEN [stack |-> StackPush(drain.stack, key), mode |-> "push"]
    ELSE IF drain.stack = <<>> /\ issued \ live = {}
    THEN [stack |-> <<key>>, mode |-> "push"]
    ELSE [stack |-> <<>>, mode |-> "off"]

DrainOnInsert(key) ==
    IF drain.mode # "off" /\ drain.stack # <<>>
    THEN [stack |-> StackPop(drain.stack), mode |-> "pop"]
    ELSE [stack |-> <<>>,
          mode |-> IF (issued \cup {key}) \ (live \cup {key}) = {}
                   THEN "push" ELSE "off"]

\* Slab::<T, K>::new() for a key type of w bits
InitWith(w) ==
    /\ width = w
    /\ dropped = {}
    /\ drain = [stack |-> <<>>, mode |-> "push"]
    /\ slots = new.slots
    /\ next = new.next
    /\ len = new.len
    /\ ret = [op |-> "new", key |-> 0, val |-> 0]
    /\ live = {}
    /\ written = [k \in {} |-> 0]
    /\ issued = {}
    /\ nins = 0
    /\ nrem = 0

\* K = u8
Init == InitWith(KeyBits)

\* K = a key type of NarrowBits bits
InitNarrow == InitWith(NarrowBits)

\* ------------------------------------------------------------- operations
\* Slab::insert(val), called as its safety section asks: the number of
\* elements is lower than the maximum value of K
Insert(val) ==
    /\ nins < MaxInserts
    /\ len < KeyMax
    /\ LET k == next
           grown == IF as_usize(k) = Capacity(slots) THEN extend(slots) ELSE slots
           slot == At(grown, as_usize(k))
       IN  /\ \E link \in (IF next = len THEN {inc(next)}
                           ELSE ReadNext(slot, Capacity(grown))) :
                  next' = link
           /\ len' = inc(len)
           /\ slots' = Put(grown, as_usize(k), SlotVal(val))
           /\ ret' = [op |-> "insert", key |-> k, val |-> val]
           /\ live' = live \cup {k}
           /\ written' = [j \in live \cup {k} |-> IF j = k THEN val ELSE written[j]]
           /\ issued' = issued \cup {k}
           /\ dropped' = dropped \cup DropGlue(slot)
           /\ drain' = DrainOnInsert(k)
    /\ nins' = nins + 1
    /\ UNCHANGED <<nrem, width>>

\* Faulty variant of remove: writes the link but does not make the freed
\* slot the head of the free list.
RemoveNoPush(key) ==
    /\ nrem < MaxRemoves
    /\ key \in live
    /\ LET slot == At(slots, as_usize(key))
       IN  /\ \E v \in ReadVal(slot) :
                  ret' = [op |-> "remove", key |-> key, val |-> v]
           /\ slots' = Put(slots, as_usize(key), SlotNext(next))
           /\ next' = next
           /\ len' = dec(len)
           /\ dropped' = dropped \cup DropGlue(slot)
    /\ drain' = DrainOnRemove(key)
    /\ live' = live \ {key}
    /\ written' = [j \in live \ {key} |-> written[j]]
    /\ nrem' = nrem + 1
    /\ UNCHANGED <<issued, nins, width>>
\* Faulty variant of remove: writes the link into the old head slot instead
\* of the freed slot.
RemoveLinkAtHead(key) ==
    /\ nrem < MaxRemoves
    /\ key \in live
    /\ LET slot == At(slots, as_usize(key))
       IN  /\ \E v \in ReadVal(slot) :
                  ret' = [op |-> "remove", key |-> key, val |-> v]
           /\ slots' = Put(slots, as_usize(next), SlotNext(key))
           /\ next' = key
           /\ len' = dec(len)
           /\ dropped' = dropped \cup DropGlue(slot)
    /\ drain' = DrainOnRemove(key)
    /\ live' = live \ {key}
    /\ written' = [j \in live \ {key} |-> written[j]]
    /\ nrem' = nrem + 1
    /\ UNCHANGED <<issued, nins, width>>
\* Slab::remove(key), key a live key
Remove(key) ==
    /\ nrem < MaxRemoves
    /\ key \in live
    /\ LET slot == At(slots, as_usize(key))
       IN  /\ \E v \in ReadVal(slot) :
                  ret' = [op |-> "remove", key |-> key, val |-> v]
           /\ slots' = Put(slots, as_usize(key), SlotNext(next))
           /\ next' = key
           /\ len' = dec(len)
           /\ dropped' = dropped \cup DropGlue(slot)
    /\ drain' = DrainOnRemove(key)
    /\ live' = live \ {key}
    /\ written' = [j \in live \ {key} |-> written[j]]
    /\ nrem' = nrem + 1
    /\ UNCHANGED <<issued, nins, width>>

\* Slab::get(key), key a live key
Get(key) ==
    /\ key \in live
    /\ \E v \in ReadVal(At(slots, as_usize(key))) :
           ret' = [op |-> "get", key |-> key, val |-> v]
    /\ UNCHANGED <<slots, next, len, live, written, issued, nins, nrem, width,
                   dropped, drain>>

\* *slab.get_mut(key) = val, key a live key
GetMut(key, val) ==
    /\ key \in live
    /\ slots' = Put(slots, as_usize(key), SlotVal(val))
    /\ ret' = [op |-> "get_mut", key |-> key, val |-> val]
    /\ written' = [written EXCEPT ![key] = val]
    /\ UNCHANGED <<next, len, live, issued, nins, nrem, width, dropped, drain>>

\* Faulty variant of next: reports len.
NextKeyLen ==
    /\ ret' = [op |-> "next", key |-> len, val |-> 0]
    /\ UNCHANGED <<slots, next, len, live, written, issued, nins, nrem, width,
                   dropped, drain>>
\* Slab::next
NextKey ==
    /\ ret' = [op |-> "next", key |-> next, val |-> 0]
    /\ UNCHANGED <<slots, next, len, live, written, issued, nins, nrem, width,
                   dropped, drain>>

\* Slab::len
Len ==
    /\ ret' = [op |-> "len", key |-> len, val |-> 0]
    /\ UNCHANGED <<slots, next, len, live, written, issued, nins, nrem, width,
                   dropped, drain>>

\* The slab goes out of scope. Slab has no Drop impl: its Box<[Slot]> is
\* freed and each slot is dropped as a union.
Discard ==
    /\ ret' = [op |-> "drop", key |-> 0, val |-> 0]
    /\ dropped' = dropped \cup UNION {DropGlue(slots[i]) : i \in DOMAIN slots}
    /\ UNCHANGED <<slots, next, len, live, written, issued, nins, nrem, width,
                   drain>>

\* The slab is still owned by the caller.
Alive == ret.op # "drop"

Next ==
    \/ Alive /\ \E v \in Values : Insert(v)
    \/ Alive /\ \E k \in live : Remove(k)
    \/ Alive /\ \E k \in live : Get(k)
    \/ Alive /\ \E k \in live, v \in Values : GetMut(k, v)
    \/ Alive /\ NextKey
    \/ Alive /\ Len
    \/ Alive /\ Discard

Spec == Init /\ [][Next]_vars

\* The documented example (the doc test of Slab, tests::basic_ops): the key
\* under which the example's value v is stored, as its variables key1..key5
\* hold it.
KeyOf(v) == CHOOSE k \in live : written[k] = v

\* The example's mutating calls, in order.
DocScript ==
    \/ nrem = 0 /\ nins < 3 /\ Insert(nins + 1)
    \/ nrem = 0 /\ nins = 3 /\ Remove(KeyOf(2))
    \/ nrem = 1 /\ nins = 3 /\ Remove(KeyOf(1))
    \/ nrem = 2 /\ nins \in 3 .. 5 /\ Insert(nins + 1)
    \/ /\ nrem = 2 /\ nins = 6 /\ ret.op # "get_mut"
       /\ \E k \in live : written[k] = 5
       /\ GetMut(KeyOf(5), 5 + 1)
    \/ nrem = 2 /\ nins = 6 /\ ret.op = "get_mut" /\ Remove(ret.key)

\* The example's reads, and after its last call any reads and writes of the
\* elements left, until the slab goes out of scope.
DocNext ==
    \/ Alive /\ DocScript
    \/ Alive /\ ret.op # "get_mut" /\ \E k \in live : Get(k)
    \/ Alive /\ ret.op # "get_mut" /\ Len
    \/ Alive /\ ret.op # "get_mut" /\ NextKey
    \/ Alive /\ nrem = 3 /\ \E k \in live, v \in Values : GetMut(k, v)
    \/ Alive /\ nrem = 3 /\ Discard

SpecDoc == Init /\ [][DocNext]_vars

\* The same calls on a slab whose key type has NarrowBits bits.
SpecNarrow == InitNarrow /\ [][Next]_vars

\* Every slot access stays inside the store and every union read finds the
\* field that was last written.
TypeOK ==
    /\ next \in 0 .. Capacity(slots)
    /\ live \subseteq DOMAIN slots
    /\ \A k \in live : slots[k].tag = "val"

\* ---------------------------------------------------------------- helpers
\* ZERO incremented n times
RECURSIVE IncTimes(_, _)
IncTimes(k, n) == IF n = 0 THEN k ELSE IncTimes(inc(k), n - 1)

\* The high-water mark: the number of never-issued-before slots consumed.
HighWater == Cardinality(issued)

\* The indices visited from k along the links, up to the high-water mark.
RECURSIVE Chain(_, _)
Chain(k, fuel) ==
    IF k = HighWater \/ fuel = 0 THEN {}
    ELSE {k} \cup (IF At(slots, k).tag = "next"
                   THEN Chain(At(slots, k).next, fuel - 1) ELSE {})

\* ----------------------------------------------------------------- claims
\* C1: insert never returns a key that is live when it is called.
C1_InsertReturnsNoLiveKey ==
    [][ret'.op = "insert" => ret'.key \notin live]_vars

\* C2: get(k) and remove(k) on a live key yield the value last written under
\* k, and while k stays live only a write through get_mut(k) changes it.
C2_LiveValueStable ==
    [][/\ (ret'.op \in {"get", "remove"} => ret'.val = written[ret'.key])
       /\ \A k \in live \cap live' :
              At(slots', k) # At(slots, k)
                  => (ret'.op = "get_mut" /\ ret'.key = k)]_vars

\* C3: len equals the number of insert calls minus the number of remove
\* calls; get, get_mut, next and len leave it alone.
C3_LenAccounting ==
    /\ len = nins - nrem
    /\ [][/\ len' = nins' - nrem'
          /\ ret'.op \in {"get", "get_mut", "next", "len"} => len' = len]_vars

C3_Witness == nins >= 4 /\ nrem >= 2 /\ ret.op = "len" /\ ret.key = nins - nrem

\* C4: an insert that directly follows remove(k) returns k.
C4_LastFreedFirstReused ==
    [][(ret.op = "remove" /\ ret'.op = "insert") => ret'.key = ret.key]_vars

\* A, B, C inserted, B then A removed, D inserted: D has A's key.
C4_Witness ==
    /\ nins = 4 /\ nrem = 2
    /\ ret.op = "insert" /\ ret.key = 0
    /\ live = {0, 2}
    /\ next = 1 /\ At(slots, 1) = SlotNext(3)

\* C5: as long as remove was never called, the n-th insert returns the key
\* n-1, which is ZERO incremented n-1 times, whatever growth took place.
C5_MonotonicKeys ==
    (nrem = 0 /\ ret.op = "insert") =>
        /\ as_usize(ret.key) = nins - 1
        /\ ret.key = IncTimes(ZERO, nins - 1)

C5_Witness ==
    nrem = 0 /\ ret.op = "insert" /\ nins = 6 /\ Capacity(slots) = 2 * INITIAL_SIZE

\* C6: growth leaves every slot below the old capacity as it was, so with
\* only inserts and get_mut writes every issued key reads back the value
\* last written to it.
C6_GrowthPreservesAddresses ==
    [][/\ Capacity(slots') # Capacity(slots) =>
              /\ \A i \in DOMAIN slots : At(slots', i) = slots[i]
              /\ ret'.key = next
              /\ len' = inc(len)
       /\ nrem' = 0 => \A k \in issued' : At(slots', k) = SlotVal(written'[k])
       /\ (nrem' = 0 /\ ret'.op = "get") => ret'.val = written[ret'.key]]_vars

C6_Witness ==
    /\ nrem = 0 /\ Capacity(slots) = 2 * INITIAL_SIZE
    /\ ret.op = "get" /\ ret.key < INITIAL_SIZE /\ ret.val = written[ret.key]

\* C7: remove(k) changes slot k, next and len only: every other slot, hence
\* the value at every other live key, and the capacity stay as they were.
C7_RemoveNonInterference ==
    [][ret'.op = "remove" =>
          /\ DOMAIN slots' = DOMAIN slots
          /\ \A j \in DOMAIN slots \ {ret'.key} : slots'[j] = slots[j]
          /\ \A j \in live \ {ret'.key} :
                 ReadVal(At(slots', j)) = ReadVal(At(slots, j))]_vars

C7_Witness == ret.op = "remove" /\ Cardinality(live) >= 2 /\ nrem = 2

\* C8 as stated: len <= next <= capacity.
C8_LenNextCapacity == len <= next /\ next <= Capacity(slots)

\* C8 amended: next <= capacity and len <= capacity.
C8_NextLenWithinCapacity == next <= Capacity(slots) /\ len <= Capacity(slots)

C8_Witness == next < len /\ len <= Capacity(slots) /\ ret.op = "remove"

\* C9: the links from next up to the high-water mark visit exactly the
\* free indices below it; every other index below it is occupied.
C9_FreeListExact ==
    /\ Chain(next, HighWater + 1) = {i \in 0 .. HighWater - 1 : i \notin live}
    /\ \A i \in (0 .. HighWater - 1) \ Chain(next, HighWater + 1) :
           At(slots, i).tag = "val"

\* C10: len is the number of distinct live keys.
C10_LenCountsLive == len = Cardinality(live)

\* C11: new() has capacity 0; insert grows the store exactly when next
\* equals the capacity on entry; growth makes the capacity 4 when it was 0
\* and twice the old capacity otherwise, so the capacity is 0 or 4 * 2^i and
\* never decreases.
C11_GrowthPolicy ==
    /\ Capacity(slots) = 0
    /\ [][/\ ret'.op = "insert" =>
                 (Capacity(slots') # Capacity(slots)
                      <=> as_usize(next) = Capacity(slots))
          /\ Capacity(slots') # Capacity(slots) =>
                 Capacity(slots') =
                     IF Capacity(slots) = 0 THEN 4 ELSE 2 * Capacity(slots)
          /\ Capacity(slots') >= Capacity(slots)
          /\ Capacity(slots') \in {0} \cup {4 * 2 ^ i : i \in 0 .. MaxInserts}]_vars

\* The insert that found next = capacity = 4 and doubled the store.
C11_Witness ==
    ret.op = "insert" /\ ret.key = 4 /\ Capacity(slots) = 8 /\ nrem >= 1

\* C12: next() changes no state and returns the key that the insert called
\* right after it returns, growth or not.
C12_NextPredictsInsert ==
    [][/\ ret'.op = "next" =>
              (ret'.key = next /\ UNCHANGED <<slots, next, len>>)
       /\ (ret.op = "next" /\ ret'.op = "insert") => ret'.key = ret.key]_vars

\* next() was called on a full store with a history of removes; the insert
\* that follows has to grow the store.
C12_Witness ==
    /\ ret.op = "next" /\ as_usize(ret.key) = Capacity(slots)
    /\ Capacity(slots) > 0 /\ nrem >= 1 /\ nins < MaxInserts

\* C17: with insert called only when len() < M (M the maximum value of K)
\* and remove only on live keys, inc is never applied to M, for next or for
\* len, dec is never applied to ZERO, and insert returns keys up to M-1 only.
C17_KeyArithmeticInRange ==
    [][/\ ret'.op = "insert" =>
              /\ len # KeyMax
              /\ next = len => next # KeyMax
              /\ ret'.key <= KeyMax - 1
       /\ ret'.op = "remove" => len # ZERO]_vars

\* The slab was filled up to len = M after keys had been removed and reused.
C17_Witness == ret.op = "insert" /\ len = KeyMax /\ nrem >= 2

\* C18: on entry to insert next is at most the capacity, so that after the
\* growth check the slot accessed exists; and whenever next # len, the slot
\* at next holds a link written by remove, of a key that is not live, and
\* the link is at most the capacity.
C18_InsertSlotDiscipline ==
    /\ as_usize(next) <= Capacity(slots)
    /\ next # len =>
           /\ as_usize(next) < Capacity(slots)
           /\ At(slots, as_usize(next)).tag = "next"
           /\ next \notin live
           /\ as_usize(At(slots, as_usize(next)).next) <= Capacity(slots)

\* An insert took the free-list branch and the next one will take it too.
C18_Witness ==
    /\ ret.op = "insert" /\ nrem >= 2 /\ nins < MaxInserts
    /\ next # len /\ At(slots, as_usize(next)).tag = "next"
    /\ ret.key < nins - 1

\* C13 as stated: insert 1,2,3 gives keys 0,1,2; after remove(key 1) and
\* remove(key 0), insert(4) returns 0 and insert(6) returns 1; then len is
\* 4, and after the increment through get_mut(k5) remove(k5) returns 6 and
\* len is 3.
C13_DocScenario ==
    /\ (nrem = 0 /\ ret.op = "insert") => ret.key = nins - 1
    /\ (nrem = 1 /\ ret.op = "remove") => (ret.key = 1 /\ ret.val = 2)
    /\ (nrem = 2 /\ nins = 3 /\ ret.op = "remove") =>
           (ret.key = 0 /\ ret.val = 1)
    /\ (nrem = 2 /\ nins = 4 /\ ret.op = "insert") => ret.key = 0
    /\ (nrem = 2 /\ nins = 6 /\ ret.op = "insert") => ret.key = 1
    /\ (nrem = 2 /\ nins = 6) => len = 4
    /\ (nrem = 3 /\ ret.op = "remove") => (ret.val = 6 /\ len = 3)

\* C13 amended: insert(5) is the one that returns key 1 (k5 = 1) and
\* insert(6) returns the fresh key 3; the rest as stated.
C13_DocScenarioLifo ==
    /\ (nrem = 0 /\ ret.op = "insert") => ret.key = nins - 1
    /\ (nrem = 1 /\ ret.op = "remove") => (ret.key = 1 /\ ret.val = 2)
    /\ (nrem = 2 /\ nins = 3 /\ ret.op = "remove") =>
           (ret.key = 0 /\ ret.val = 1)
    /\ (nrem = 2 /\ nins = 4 /\ ret.op = "insert") => ret.key = 0
    /\ (nrem = 2 /\ nins = 5 /\ ret.op = "insert") => ret.key = 1
    /\ (nrem = 2 /\ nins = 6 /\ ret.op = "insert") => ret.key = 3
    /\ (nrem = 2 /\ nins = 6) => len = 4
    /\ (nrem = 3 /\ ret.op = "remove") =>
           (ret.key = 1 /\ ret.val = 6 /\ len = 3)

\* The end of the example: remove(k5) has returned 6.
C13_Witness ==
    nins = 6 /\ nrem = 3 /\ ret = [op |-> "remove", key |-> 1, val |-> 6]

\* C14: the slab never runs cleanup on an element value, whether in
\* insert, remove, growth or when it is discarded, and a value stored under
\* a live key leaves the slab only by being returned from remove (or by the
\* caller's own write through get_mut).
C14_LeakByConvention ==
    /\ dropped = {}
    /\ [][/\ dropped' = {}
          /\ \A k \in live :
                 (k \notin live' \/ At(slots', k) # At(slots, k)) =>
                     \/ /\ ret'.op = "remove" /\ ret'.key = k
                        /\ ret'.val = written[k]
                     \/ ret'.op = "get_mut" /\ ret'.key = k]_vars

\* No index below the high-water mark is free.
NoFreeSlot == \A i \in 0 .. HighWater - 1 : i \in live

\* C15: when insert is entered with next = len, no slot is free and the
\* slot at next was never issued; so insert takes a never-issued slot, and
\* grows the store, only when no removed slot is waiting for reuse.
C15_NextEqLenMeansNoFree ==
    [][ret'.op = "insert" =>
          /\ next = len => (NoFreeSlot /\ next \notin issued)
          /\ (ret'.key \notin issued \/ Capacity(slots') # Capacity(slots))
                 => NoFreeSlot]_vars

\* C16: keys k1..km removed in a row from a slab without free slots come
\* back from the next m inserts in the order km..k1, and only the insert
\* after those returns a never-issued key.
C16_DrainInReverseOrder ==
    [][ret'.op = "insert" =>
          /\ (drain.mode # "off" /\ drain.stack # <<>>)
                 => ret'.key = StackTop(drain.stack)
          /\ (drain.mode = "pop" /\ drain.stack = <<>>)
                 => ret'.key \notin issued
          /\ ret'.key \notin issued
                 => (drain.mode = "off" \/ drain.stack = <<>>)]_vars

====
